---- MODULE Spec2Model ----
(***************************************************************************)
(* A model of the text-to-speech orchestration service of src/main.py:     *)
(* the text chunker, the translation adapter, the two synthesis adapters,  *)
(* the result caches and the /tts request handler.                         *)
(*                                                                         *)
(* A Python str is a sequence of one-character strings.                    *)
(***************************************************************************)
EXTENDS Integers, Sequences, FiniteSets, TLC

VARIABLES
    args,               \* unit call: the arguments of the function under call
    returned,           \* unit call: what it returned
    pc,                 \* unit call: "call" before, "done" after
    translation_cache,  \* main.py line 51
    audio_cache,        \* main.py line 52
    polly_client,       \* main.py lines 34-42: None when Polly is not configured
    GEMINI_API_KEY,     \* main.py line 24: None when the key is not set
    last,               \* history: what the last handled operation did
    audio_origin,       \* history: the request whose synthesis filled each audio_cache key
    n_requests          \* how many /tts or translate calls were handled

unit_vars == <<args, returned, pc>>

service_vars == <<translation_cache, audio_cache, polly_client, GEMINI_API_KEY,
                  last, audio_origin, n_requests>>

vars == <<unit_vars, service_vars>>

(***************************************************************************)
(* Bounds of the chunker's input space.                                    *)
(***************************************************************************)
MaxLen == 5
MaxChars == 3

(***************************************************************************)
(* Characters.  "a" and "b" stand for letters, "." for the sentence        *)
(* terminators, " " and "\n" for white space.                              *)
(***************************************************************************)
Alphabet == {"a", "b", ".", " ", "\n"}

Terminators == {".", "!", "?", "DANDA"}

IsSpace(c) == c \in {" ", "\n", "\t", "\r"}

Min(S) == CHOOSE x \in S : \A y \in S : x <= y

Max(S) == CHOOSE x \in S : \A y \in S : x >= y

\* str.lstrip(): from the first character that is not white space.
lstrip(s) ==
    IF \A i \in 1..Len(s) : IsSpace(s[i]) THEN <<>>
    ELSE SubSeq(s, CHOOSE i \in 1..Len(s) :
                       ~IsSpace(s[i]) /\ \A j \in 1..(i - 1) : IsSpace(s[j]),
                Len(s))

\* str.rstrip(): up to the last character that is not white space.
rstrip(s) ==
    IF \A i \in 1..Len(s) : IsSpace(s[i]) THEN <<>>
    ELSE SubSeq(s, 1, CHOOSE i \in 1..Len(s) :
                          ~IsSpace(s[i]) /\ \A j \in (i + 1)..Len(s) : IsSpace(s[j]))

\* str.strip()
strip(s) == rstrip(lstrip(s))

\* The last position of the run of white space that starts at position i.
RECURSIVE RunEnd(_, _)
RunEnd(s, i) == IF i < Len(s) /\ IsSpace(s[i + 1]) THEN RunEnd(s, i + 1) ELSE i

\* The end of the match of (?<=[.!?DANDA])\s+|\n\s*\n that starts at position
\* i, or 0 when the pattern does not match there.  The first alternative is
\* tried first; \s+ and \s* are greedy.
MatchEnd(s, i) ==
    IF ~IsSpace(s[i]) THEN 0
    ELSE IF i > 1 /\ s[i - 1] \in Terminators THEN RunEnd(s, i)
    ELSE IF s[i] = "\n"
         THEN LET later == {j \in (i + 1)..RunEnd(s, i) : s[j] = "\n"}
              IN IF later = {} THEN 0 ELSE Max(later)
         ELSE 0

\* re.split(pattern, s) from position p on: the pieces between the matches,
\* found left to right without overlap.
RECURSIVE re_split_from(_, _)
re_split_from(s, p) ==
    LET starts == {i \in p..Len(s) : MatchEnd(s, i) # 0}
    IN IF starts = {} THEN << SubSeq(s, p, Len(s)) >>
       ELSE LET i == Min(starts)
            IN << SubSeq(s, p, i - 1) >> \o re_split_from(s, MatchEnd(s, i) + 1)

re_split(s) == re_split_from(s, 1)

\* str.split(): the maximal runs of non-white-space characters.
RECURSIVE split(_)
split(s) ==
    LET t == lstrip(s)
    IN IF t = <<>> THEN <<>>
       ELSE LET spaces == {i \in 1..Len(t) : IsSpace(t[i])}
                e == IF spaces = {} THEN Len(t) ELSE Min(spaces) - 1
            IN << SubSeq(t, 1, e) >> \o split(SubSeq(t, e + 1, Len(t)))

\* " ".join(pieces)
RECURSIVE join(_)
join(pieces) ==
    IF pieces = <<>> THEN <<>>
    ELSE IF Len(pieces) = 1 THEN pieces[1]
    ELSE pieces[1] \o <<" ">> \o join(Tail(pieces))

(***************************************************************************)
(* chunk_text, lines 135-177.                                              *)
(***************************************************************************)

\* One iteration of the word loop, lines 154-160.
\* st = [chunks, temp_chunk].
WordStep(st, word, max_chars) ==
    IF Len(st.temp_chunk \o <<" ">> \o word) <= max_chars
    THEN [st EXCEPT !.temp_chunk =
              IF st.temp_chunk # <<>> THEN st.temp_chunk \o <<" ">> \o word ELSE word]
    ELSE [chunks |-> IF st.temp_chunk # <<>>
                     THEN Append(st.chunks, strip(st.temp_chunk))
                     ELSE st.chunks,
          temp_chunk |-> word]

RECURSIVE WordLoop(_, _, _, _)
WordLoop(words, k, st, max_chars) ==
    IF k > Len(words) THEN st
    ELSE WordLoop(words, k + 1, WordStep(st, words[k], max_chars), max_chars)

\* The word-level branch, lines 152-162: called with current_chunk empty.
\* st = [chunks, current_chunk].
BreakAtWords(st, sentence, max_chars) ==
    LET w == WordLoop(split(sentence), 1,
                      [chunks |-> st.chunks, temp_chunk |-> <<>>], max_chars)
    IN [chunks |-> w.chunks,
        current_chunk |-> IF w.temp_chunk # <<>> THEN w.temp_chunk
                          ELSE st.current_chunk]

\* One iteration of the sentence loop, lines 143-164.
SentenceStep(st, raw, max_chars) ==
    LET sentence == strip(raw)
    IN IF sentence = <<>> THEN st
       ELSE IF Len(st.current_chunk \o <<" ">> \o sentence) > max_chars
            THEN IF st.current_chunk # <<>>
                 THEN [chunks |-> Append(st.chunks, strip(st.current_chunk)),
                       current_chunk |-> sentence]
                 ELSE BreakAtWords(st, sentence, max_chars)
            ELSE [st EXCEPT !.current_chunk =
                      IF st.current_chunk # <<>>
                      THEN st.current_chunk \o <<" ">> \o sentence
                      ELSE sentence]

RECURSIVE SentenceLoop(_, _, _, _)
SentenceLoop(sentences, k, st, max_chars) ==
    IF k > Len(sentences) THEN st
    ELSE SentenceLoop(sentences, k + 1,
                      SentenceStep(st, sentences[k], max_chars), max_chars)

\* Mutant: the chunk under construction is forgotten at the end.
FlushCurrent_Forget(st) == st.chunks

\* Mutant: the chunk under construction is appended even when it is empty.
FlushCurrent_Always(st) == Append(st.chunks, strip(st.current_chunk))

\* Lines 166-167.
FlushCurrent(st) ==
    IF st.current_chunk # <<>>
    THEN Append(st.chunks, strip(st.current_chunk))
    ELSE st.chunks

\* Mutant: no safety split.
SafetySplit_NoSlice(chunk, max_chars) == << chunk >>

\* Lines 172-176: a chunk within the limit is kept, a longer one is cut into
\* windows of max_chars characters.
SafetySplit(chunk, max_chars) ==
    IF Len(chunk) <= max_chars THEN << chunk >>
    ELSE [k \in 1..((Len(chunk) + max_chars - 1) \div max_chars) |->
             SubSeq(chunk, (k - 1) * max_chars + 1,
                    IF k * max_chars < Len(chunk) THEN k * max_chars ELSE Len(chunk))]

RECURSIVE FinalSplit(_, _)
FinalSplit(chunks, max_chars) ==
    IF chunks = <<>> THEN <<>>
    ELSE SafetySplit(Head(chunks), max_chars) \o FinalSplit(Tail(chunks), max_chars)

\* Mutant: the fast path strips the text like the other path does.
chunk_text_StripFirst(text, max_chars) ==
    IF Len(text) <= max_chars THEN << strip(text) >>
    ELSE LET sentences == re_split(strip(text))
             st == SentenceLoop(sentences, 1,
                                [chunks |-> <<>>, current_chunk |-> <<>>], max_chars)
         IN FinalSplit(FlushCurrent(st), max_chars)

\* Lines 135-177.
chunk_text(text, max_chars) ==
    IF Len(text) <= max_chars THEN << text >>
    ELSE LET sentences == re_split(strip(text))
             st == SentenceLoop(sentences, 1,
                                [chunks |-> <<>>, current_chunk |-> <<>>], max_chars)
         IN FinalSplit(FlushCurrent(st), max_chars)

(***************************************************************************)
(* The chunker on its own: every string of at most MaxLen characters and   *)
(* every limit in 1..MaxChars.                                             *)
(***************************************************************************)
RECURSIVE Strings(_)
Strings(n) ==
    IF n = 0 THEN { <<>> }
    ELSE LET shorter == Strings(n - 1)
         IN shorter \cup {Append(s, c) : s \in {t \in shorter : Len(t) = n - 1},
                                         c \in Alphabet}

(***************************************************************************)
(* Module-level data, lines 44-94.                                         *)
(*                                                                         *)
(* A language code is the sequence of its parts between "-" characters:    *)
(* "hi-IN" is <<"hi", "IN">>, "auto" is <<"auto">>.                        *)
(***************************************************************************)
None == "None"

TTS_MAX_CHARS == 250
POLLY_MAX_CHARS == 3000
TRANSLATE_MAX_CHARS == 1000

Regional(l) == <<l, "IN">>

INDIAN_LANGUAGES ==
    {Regional("bn"), Regional("en"), Regional("gu"), Regional("hi"), Regional("kn"), Regional("ml"), Regional("mr"), Regional("od"),
     Regional("pa"), Regional("ta"), Regional("te"), Regional("as"), Regional("brx"), Regional("doi"), Regional("kok"), Regional("ks"),
     Regional("mai"), Regional("mni"), Regional("ne"), Regional("sa"), Regional("sat"), Regional("sd"), Regional("ur")}

POLLY_LANGUAGES ==
    (<<"en", "US">> :> [voices |-> <<"Joanna", "Matthew", "Ivy", "Justin", "Kendra",
                                    "Kimberly", "Salli", "Joey", "Ruth", "Stephen">>])
    @@ (<<"en", "GB">> :> [voices |-> <<"Amy", "Emma", "Brian", "Arthur">>])
    @@ (<<"en", "AU">> :> [voices |-> <<"Nicole", "Russell", "Olivia">>])
    @@ (<<"es", "ES">> :> [voices |-> <<"Conchita", "Lucia", "Enrique">>])
    @@ (<<"es", "MX">> :> [voices |-> <<"Mia">>])
    @@ (<<"es", "US">> :> [voices |-> <<"Penelope", "Miguel", "Lupe">>])
    @@ (<<"fr", "FR">> :> [voices |-> <<"Celine", "Lea", "Mathieu">>])
    @@ (<<"fr", "CA">> :> [voices |-> <<"Chantal", "Gabrielle">>])
    @@ (<<"de", "DE">> :> [voices |-> <<"Marlene", "Vicki", "Hans", "Daniel">>])
    @@ (<<"it", "IT">> :> [voices |-> <<"Carla", "Bianca", "Giorgio">>])
    @@ (<<"pt", "BR">> :> [voices |-> <<"Vitoria", "Camila", "Ricardo">>])
    @@ (<<"pt", "PT">> :> [voices |-> <<"Ines", "Cristiano">>])
    @@ (<<"ja", "JP">> :> [voices |-> <<"Mizuki", "Takumi">>])
    @@ (<<"ko", "KR">> :> [voices |-> <<"Seoyeon">>])
    @@ (<<"zh", "CN">> :> [voices |-> <<"Zhiyu">>])
    @@ (<<"ar", "AE">> :> [voices |-> <<"Zeina">>])
    @@ (<<"hi", "IN">> :> [voices |-> <<"Aditi", "Raveena">>])
    @@ (<<"tr", "TR">> :> [voices |-> <<"Filiz">>])
    @@ (<<"ru", "RU">> :> [voices |-> <<"Tatyana", "Maxim">>])
    @@ (<<"nl", "NL">> :> [voices |-> <<"Lotte", "Ruben">>])
    @@ (<<"sv", "SE">> :> [voices |-> <<"Astrid">>])
    @@ (<<"da", "DK">> :> [voices |-> <<"Naja", "Mads">>])
    @@ (<<"no", "NO">> :> [voices |-> <<"Liv">>])
    @@ (<<"pl", "PL">> :> [voices |-> <<"Ewa", "Maja", "Jacek", "Jan">>])
    @@ (<<"ro", "RO">> :> [voices |-> <<"Carmen">>])
    @@ (<<"ca", "ES">> :> [voices |-> <<"Arlet">>])
    @@ (<<"is", "IS">> :> [voices |-> <<"Dora", "Karl">>])
    @@ (<<"cy", "GB">> :> [voices |-> <<"Gwyneth">>])
    @@ (<<"cmn", "CN">> :> [voices |-> <<"Zhiyu">>])
    @@ (<<"yue", "CN">> :> [voices |-> <<"Hiujin">>])
    @@ (<<"nb", "NO">> :> [voices |-> <<"Liv">>])

Range(f) == {f[x] : x \in DOMAIN f}

\* Python truthiness of an Optional[str].
Truthy(v) == v # None /\ v # ""

(***************************************************************************)
(* generate_cache_key, lines 111-114.  kwargs is the sequence of           *)
(* <<name, value>> pairs in the order the caller wrote them.  md5 is taken *)
(* to be collision-free: the digest stands for the string it was made of.  *)
(***************************************************************************)

\* The keyword names the program uses, in the order Python sorts them.
KeywordOrder ==
    <<"engine", "loudness", "output_format", "pace", "pitch", "source",
      "source_lang", "speaker", "target", "target_lang", "voice">>

NameRank(name) == CHOOSE i \in 1..Len(KeywordOrder) : KeywordOrder[i] = name

RECURSIVE InsertSorted(_, _)
InsertSorted(item, items) ==
    IF items = <<>> THEN << item >>
    ELSE IF NameRank(item[1]) <= NameRank(Head(items)[1]) THEN << item >> \o items
    ELSE << Head(items) >> \o InsertSorted(item, Tail(items))

\* Mutant: the items are left in the order the caller wrote them.
sorted_AsGiven(items) == items

\* sorted(kwargs.items())
RECURSIVE sorted(_)
sorted(items) ==
    IF items = <<>> THEN <<>> ELSE InsertSorted(Head(items), sorted(Tail(items)))

md5(key_data) == [md5 |-> key_data]

generate_cache_key(text, kwargs) == md5(<<text, "_", sorted(kwargs)>>)

\* Mutant: a code that is also in the Polly voice table is not regional.
is_indian_language_NotInVoiceTable(lang_code) ==
    lang_code \in INDIAN_LANGUAGES \ DOMAIN POLLY_LANGUAGES

\* Lines 116-118.
is_indian_language(lang_code) == lang_code \in INDIAN_LANGUAGES

\* Mutant: for a language the table does not have, the requested voice is
\* returned as it is.
get_polly_voice_NoFallback(lang_code, requested_voice) ==
    IF lang_code \notin DOMAIN POLLY_LANGUAGES
    THEN IF Truthy(requested_voice) THEN requested_voice ELSE "Joanna"
    ELSE LET available_voices == POLLY_LANGUAGES[lang_code].voices
         IN IF Truthy(requested_voice) /\ requested_voice \in Range(available_voices)
            THEN requested_voice
            ELSE available_voices[1]

\* Mutant: the requested voice is ignored.
get_polly_voice_FirstOnly(lang_code, requested_voice) ==
    LET lang == IF lang_code \notin DOMAIN POLLY_LANGUAGES
                THEN <<"en", "US">>
                ELSE lang_code
    IN POLLY_LANGUAGES[lang].voices[1]

\* Lines 120-132.
get_polly_voice(lang_code, requested_voice) ==
    LET lang == IF lang_code \notin DOMAIN POLLY_LANGUAGES
                THEN <<"en", "US">>
                ELSE lang_code
        available_voices == POLLY_LANGUAGES[lang].voices
    IN IF Truthy(requested_voice) /\ requested_voice \in Range(available_voices)
       THEN requested_voice
       ELSE available_voices[1]

(***************************************************************************)
(* translate_text, lines 180-239.                                          *)
(*                                                                         *)
(* The two remote translators are outside the program.  Whether a call     *)
(* succeeds is the environment's choice, one outcome per chunk:            *)
(* "primary" (the Sarvam call returns), "fallback" (it raises and the      *)
(* Gemini call returns), "fail" (both raise).  What a translator returns   *)
(* for a chunk is a fixed rewriting of the chunk, different for the two.   *)
(***************************************************************************)
TranslationOutcomes == {"primary", "fallback", "fail"}

Rewrite(chunk, letter) ==
    [i \in 1..Len(chunk) |-> IF chunk[i] \in {"a", "b"} THEN letter ELSE chunk[i]]

\* response.translated_text of client.text.translate, line 201.
PrimaryText(chunk) == Rewrite(chunk, "x")

\* response.text of model.generate_content, line 229, before .strip().
FallbackText(chunk) == <<" ">> \o Rewrite(chunk, "y") \o <<"\n">>

\* Mutant: no pass-through; when both translators fail the exception leaves
\* the loop.
TranslateChunk_NoPassThrough(chunk, outcome, gemini_key) ==
    IF outcome = "primary"
    THEN [chunk |-> chunk, primary_ok |-> TRUE, fallback_called |-> FALSE,
          fallback_ok |-> FALSE, raised |-> FALSE,
          piece |-> PrimaryText(chunk)]
    ELSE IF gemini_key # None /\ outcome = "fallback"
    THEN [chunk |-> chunk, primary_ok |-> FALSE, fallback_called |-> TRUE,
          fallback_ok |-> TRUE, raised |-> FALSE,
          piece |-> strip(FallbackText(chunk))]
    ELSE [chunk |-> chunk, primary_ok |-> FALSE, fallback_called |-> gemini_key # None,
          fallback_ok |-> FALSE, raised |-> TRUE, piece |-> <<>>]

\* The body of the loop over the chunks, lines 192-233: the piece appended to
\* translated_chunks and the calls that were made.
TranslateChunk(chunk, outcome, gemini_key) ==
    IF outcome = "primary"
    THEN [chunk |-> chunk, primary_ok |-> TRUE, fallback_called |-> FALSE,
          fallback_ok |-> FALSE, raised |-> FALSE,
          piece |-> PrimaryText(chunk)]
    ELSE IF gemini_key = None
    THEN [chunk |-> chunk, primary_ok |-> FALSE, fallback_called |-> FALSE,
          fallback_ok |-> FALSE, raised |-> FALSE, piece |-> chunk]
    ELSE IF outcome = "fallback"
    THEN [chunk |-> chunk, primary_ok |-> FALSE, fallback_called |-> TRUE,
          fallback_ok |-> TRUE, raised |-> FALSE,
          piece |-> strip(FallbackText(chunk))]
    ELSE [chunk |-> chunk, primary_ok |-> FALSE, fallback_called |-> TRUE,
          fallback_ok |-> FALSE, raised |-> FALSE, piece |-> chunk]

TranslationKey(text, source_lang, target_lang) ==
    generate_cache_key(text, << <<"source", source_lang>>, <<"target", target_lang>> >>)

\* Mutant: the result is returned without being stored.
TranslateChunks_NoStore(chunks, cache_key, cache, gemini_key, env) ==
    LET log == [i \in 1..Len(chunks) |->
                   TranslateChunk(chunks[i], env[i], gemini_key)]
    IN [result |-> join([i \in 1..Len(chunks) |-> log[i].piece]), cache |-> cache,
        hit |-> FALSE, raised |-> FALSE, env |-> env, log |-> log]

\* Lines 189-239 under the outcomes env, one per chunk: the return value, the
\* cache after the call, and the per-chunk log.
TranslateChunks(chunks, cache_key, cache, gemini_key, env) ==
    LET log == [i \in 1..Len(chunks) |->
                   TranslateChunk(chunks[i], env[i], gemini_key)]
        translated_chunks == [i \in 1..Len(chunks) |-> log[i].piece]
        result == join(translated_chunks)
    IN IF \E i \in 1..Len(chunks) : log[i].raised
       THEN [result |-> None, cache |-> cache, hit |-> FALSE, raised |-> TRUE,
             env |-> env, log |-> log]
       ELSE [result |-> result, cache |-> (cache_key :> result) @@ cache,
             hit |-> FALSE, raised |-> FALSE, env |-> env, log |-> log]

\* translate_text: the ways one call can go, one for each sequence of outcomes
\* the translators can present; a single way on a cache hit.
translate_text(text, source_lang, target_lang, cache, gemini_key) ==
    LET cache_key == TranslationKey(text, source_lang, target_lang)
    IN IF cache_key \in DOMAIN cache
       THEN {[result |-> cache[cache_key], cache |-> cache, hit |-> TRUE,
              raised |-> FALSE, env |-> <<>>, log |-> <<>>]}
       ELSE LET chunks == chunk_text(text, TRANSLATE_MAX_CHARS)
            IN {TranslateChunks(chunks, cache_key, cache, gemini_key, env) :
                   env \in [1..Len(chunks) -> TranslationOutcomes]}

(***************************************************************************)
(* Audio.  The bytes a backend returns are a record of the container they  *)
(* are in, their duration and what was spoken with which parameters.  A    *)
(* decoded AudioSegment is the sequence of its stretches of sound.         *)
(***************************************************************************)
SILENCE_MS == 1000
GAP_MS == 200

\* The duration a backend call can return; 0 stands for a call that raises.
SpeechDurations == {700}

SynthOutcomes == {0} \cup SpeechDurations

b64encode(bytes) == [b64 |-> bytes]

b64decode(payload) == payload.b64

\* AudioSegment.silent(duration=ms)
silent(ms) == << [kind |-> "silence", ms |-> ms] >>

\* AudioSegment.from_wav / from_mp3 / from_raw on backend bytes.
from_container(bytes, decoder) ==
    << [kind |-> "speech", ms |-> bytes.ms, spoken |-> bytes.spoken,
        decoder |-> decoder] >>

\* len(segment), in milliseconds.
RECURSIVE Duration(_)
Duration(segment) ==
    IF segment = <<>> THEN 0 ELSE Head(segment).ms + Duration(Tail(segment))

\* Mutant: the segments are joined without the gap.
RECURSIVE Stitch_NoGap(_, _)
Stitch_NoGap(final_audio, rest) ==
    IF rest = <<>> THEN final_audio
    ELSE Stitch_NoGap(final_audio \o Head(rest), Tail(rest))

\* Lines 304-307 and 377-380: the segments in order, a gap before each but
\* the first.
RECURSIVE Stitch(_, _)
Stitch(final_audio, rest) ==
    IF rest = <<>> THEN final_audio
    ELSE Stitch(final_audio \o silent(GAP_MS) \o Head(rest), Tail(rest))

\* final_audio.export(out_buffer, format=...)
export(final_audio, format) == [container |-> format, track |-> final_audio]

\* .lower() on the speaker names of the model.
lower(name) == IF name = "Matthew" THEN "matthew" ELSE name

(***************************************************************************)
(* synthesize_speech_sarvam, lines 242-311.                                *)
(***************************************************************************)
\* client.text_to_speech.convert for one chunk, when it returns.
SarvamResponse(chunk, p, ms) ==
    [audios |-> << b64encode([container |-> "wav", ms |-> ms,
                              spoken |-> [backend |-> "sarvam", text |-> chunk,
                                          params |-> p]]) >>]

\* Lines 281-292.
SarvamDecode(audio_data) ==
    IF audio_data.container = "wav" THEN from_container(audio_data, "wav")
    ELSE IF audio_data.container = "mp3" THEN from_container(audio_data, "mp3")
    ELSE from_container(audio_data, "raw")

\* Lines 266-299: the segment appended for one chunk.
SarvamSegment(chunk, p, outcome) ==
    IF outcome = 0 THEN silent(SILENCE_MS)
    ELSE SarvamDecode(b64decode(SarvamResponse(chunk, p, outcome).audios[1]))

\* Lines 248-311 under the outcomes env, one per chunk.
SarvamSynthesis(chunks, p, env) ==
    IF Len(chunks) = 1
    THEN IF env[1] = 0
         THEN [ok |-> FALSE, error |-> "convert raised", chunks |-> chunks,
               env |-> env, segments |-> <<>>]
         ELSE [ok |-> TRUE,
               audio |-> b64decode(SarvamResponse(chunks[1], p, env[1]).audios[1]),
               chunks |-> chunks, env |-> env, segments |-> <<>>]
    ELSE LET audio_segments ==
                 [i \in 1..Len(chunks) |-> SarvamSegment(chunks[i], p, env[i])]
         IN IF audio_segments = <<>>
            THEN [ok |-> FALSE, error |-> "Failed to generate audio with Sarvam",
                  chunks |-> chunks, env |-> env, segments |-> audio_segments]
            ELSE [ok |-> TRUE,
                  audio |-> export(Stitch(audio_segments[1], Tail(audio_segments)),
                                   "wav"),
                  chunks |-> chunks, env |-> env, segments |-> audio_segments]

\* synthesize_speech_sarvam: the ways one call can go, one for each sequence
\* of outcomes the backend can present.
synthesize_speech_sarvam(text, speaker, pitch, target_language_code, pace, loudness, sample_rate, enable_preprocessing) ==
    LET chunks == chunk_text(text, TTS_MAX_CHARS)
        p == [speaker |-> lower(speaker), pitch |-> pitch,
              target_language_code |-> target_language_code, pace |-> pace,
              loudness |-> loudness, speech_sample_rate |-> sample_rate,
              enable_preprocessing |-> enable_preprocessing]
    IN {SarvamSynthesis(chunks, p, env) : env \in [1..Len(chunks) -> SynthOutcomes]}

(***************************************************************************)
(* synthesize_speech_polly, lines 314-388.                                 *)
(***************************************************************************)
\* response['AudioStream'].read() of polly_client.synthesize_speech.
PollyAudio(chunk, p, ms) ==
    [container |-> p.OutputFormat, ms |-> ms,
     spoken |-> [backend |-> "polly", text |-> chunk, params |-> p]]

\* Lines 354-365.
PollyDecode(audio_data, output_format) ==
    IF output_format = "mp3"
    THEN IF audio_data.container = "mp3" THEN from_container(audio_data, "mp3")
         ELSE from_container(audio_data, "raw")
    ELSE IF audio_data.container = "wav" THEN from_container(audio_data, "wav")
         ELSE from_container(audio_data, "raw")

\* Lines 343-372.
PollySegment(chunk, p, outcome) ==
    IF outcome = 0 THEN silent(SILENCE_MS)
    ELSE PollyDecode(PollyAudio(chunk, p, outcome), p.OutputFormat)

\* Lines 323-388 under the outcomes env, one per chunk.
PollySynthesis(chunks, p, env) ==
    IF Len(chunks) = 1
    THEN IF env[1] = 0
         THEN [ok |-> FALSE, error |-> "Polly synthesis failed",
               chunks |-> chunks, env |-> env, segments |-> <<>>]
         ELSE [ok |-> TRUE, audio |-> PollyAudio(chunks[1], p, env[1]),
               chunks |-> chunks, env |-> env, segments |-> <<>>]
    ELSE LET audio_segments ==
                 [i \in 1..Len(chunks) |-> PollySegment(chunks[i], p, env[i])]
         IN IF audio_segments = <<>>
            THEN [ok |-> FALSE, error |-> "Failed to generate audio with Polly",
                  chunks |-> chunks, env |-> env, segments |-> audio_segments]
            ELSE [ok |-> TRUE,
                  audio |-> export(Stitch(audio_segments[1], Tail(audio_segments)),
                                   IF p.OutputFormat = "mp3" THEN "mp3" ELSE "wav"),
                  chunks |-> chunks, env |-> env, segments |-> audio_segments]

\* synthesize_speech_polly: the ways one call can go.
synthesize_speech_polly(text, voice_id, language_code, engine, output_format, client) ==
    IF client = None
    THEN {[ok |-> FALSE, error |-> "AWS Polly client not configured",
           chunks |-> <<>>, env |-> <<>>, segments |-> <<>>]}
    ELSE LET chunks == chunk_text(text, POLLY_MAX_CHARS)
             p == [Engine |-> engine, OutputFormat |-> output_format,
                   VoiceId |-> voice_id, LanguageCode |-> language_code]
         IN {PollySynthesis(chunks, p, env) :
                env \in [1..Len(chunks) -> SynthOutcomes]}

(***************************************************************************)
(* The /tts handler, lines 394-460.                                        *)
(***************************************************************************)
\* Lines 398-409.
AudioKey(request) ==
    generate_cache_key(request.input_text,
        << <<"source_lang", request.source_lang>>,
           <<"target_lang", request.target_lang>>,
           <<"speaker", request.speaker>>,
           <<"voice", request.voice>>,
           <<"pitch", request.pitch>>,
           <<"pace", request.pace>>,
           <<"loudness", request.loudness>>,
           <<"engine", request.engine>>,
           <<"output_format", request.output_format>> >>)

\* Lines 413 and 449.
FormatMediaType(output_format) ==
    IF output_format = "mp3" THEN "audio/mp3" ELSE "audio/wav"

\* Line 418; target_lang.split('-')[0] is the first part of the code.
NeedsTranslation(request) ==
    \/ request.source_lang = <<"auto">>
    \/ request.source_lang # << request.target_lang[1] >>

\* Line 441.
RequestedVoice(request) ==
    IF Truthy(request.voice) THEN request.voice ELSE request.speaker

\* Lines 416-423: the ways the translation step can go.
Translation(request, cache, gemini_key) ==
    IF NeedsTranslation(request)
    THEN {[called |-> TRUE, call |-> c] :
             c \in translate_text(request.input_text, request.source_lang,
                                  request.target_lang, cache, gemini_key)}
    ELSE {[called |-> FALSE,
           call |-> [result |-> request.input_text, cache |-> cache, hit |-> FALSE,
                     raised |-> FALSE, env |-> <<>>, log |-> <<>>]]}

\* Mutant: the Polly client is required whichever backend is selected.
Synthesis_ClientFirst(request, text_to_speak, client) ==
    IF client = None
    THEN {[backend |-> IF is_indian_language(request.target_lang)
                       THEN "sarvam" ELSE "polly",
           voice_id |-> None, media_type |-> None,
           call |-> [ok |-> FALSE, error |-> "AWS Polly client not configured",
                     chunks |-> <<>>, env |-> <<>>, segments |-> <<>>]]}
    ELSE IF is_indian_language(request.target_lang)
    THEN {[backend |-> "sarvam", voice_id |-> None, media_type |-> "audio/wav",
           call |-> c] :
             c \in synthesize_speech_sarvam(text_to_speak, request.speaker,
                        request.pitch, request.target_lang, request.pace,
                        request.loudness, request.speech_sample_rate,
                        request.enable_preprocessing)}
    ELSE {[backend |-> "polly", voice_id |-> "Joanna",
           media_type |-> FormatMediaType(request.output_format),
           call |-> c] :
             c \in synthesize_speech_polly(text_to_speak, "Joanna",
                        request.target_lang, request.engine,
                        request.output_format, client)}

\* Lines 425-449: the ways the synthesis step can go.
Synthesis(request, text_to_speak, client) ==
    IF is_indian_language(request.target_lang)
    THEN {[backend |-> "sarvam", voice_id |-> None, media_type |-> "audio/wav",
           call |-> c] :
             c \in synthesize_speech_sarvam(text_to_speak, request.speaker,
                        request.pitch, request.target_lang, request.pace,
                        request.loudness, request.speech_sample_rate,
                        request.enable_preprocessing)}
    ELSE LET voice_id == get_polly_voice(request.target_lang, RequestedVoice(request))
         IN {[backend |-> "polly", voice_id |-> voice_id,
              media_type |-> FormatMediaType(request.output_format),
              call |-> c] :
                c \in synthesize_speech_polly(text_to_speak, voice_id,
                           request.target_lang, request.engine,
                           request.output_format, client)}

\* What the handler leaves behind on a cache hit, lines 411-414.
HitRecord(request, cache_key) ==
    [op |-> "tts", request |-> request, cache_key |-> cache_key, cache_hit |-> TRUE,
     synth_env |-> <<>>,
     translated |-> FALSE, translation |-> <<>>, text_to_speak |-> <<>>,
     backend |-> None, voice_id |-> None, synth |-> <<>>,
     status |-> 200, media_type |-> FormatMediaType(request.output_format),
     content |-> audio_cache[cache_key]]

\* What it leaves behind on a miss: the response of lines 454-457, or the
\* HTTPException of line 460 when the synthesis raised.
MissRecord(request, cache_key, tr, syn) ==
    [op |-> "tts", request |-> request, cache_key |-> cache_key, cache_hit |-> FALSE,
     synth_env |-> syn.call.env,
     translated |-> tr.called, translation |-> tr.call,
     text_to_speak |-> tr.call.result,
     backend |-> syn.backend, voice_id |-> syn.voice_id, synth |-> syn.call,
     status |-> IF syn.call.ok THEN 200 ELSE 500,
     media_type |-> IF syn.call.ok THEN syn.media_type ELSE None,
     content |-> IF syn.call.ok THEN syn.call.audio ELSE syn.call.error]

\* Mutant: the cache entry is written before the synthesis is known to have
\* succeeded.
text_to_speech_request_StoreFirst(request) ==
    LET cache_key == AudioKey(request)
    IN IF cache_key \in DOMAIN audio_cache
       THEN /\ last' = HitRecord(request, cache_key)
            /\ UNCHANGED <<translation_cache, audio_cache, audio_origin>>
       ELSE \E tr \in Translation(request, translation_cache, GEMINI_API_KEY) :
              \E syn \in Synthesis(request, tr.call.result, polly_client) :
                 /\ translation_cache' = tr.call.cache
                 /\ audio_cache' =
                       (cache_key :> (IF syn.call.ok THEN syn.call.audio
                                      ELSE syn.call.error)) @@ audio_cache
                 /\ audio_origin' = (cache_key :> request) @@ audio_origin
                 /\ last' = MissRecord(request, cache_key, tr, syn)

\* Lines 394-460 for one request.
text_to_speech_request(request) ==
    LET cache_key == AudioKey(request)
    IN IF cache_key \in DOMAIN audio_cache
       THEN /\ last' = HitRecord(request, cache_key)
            /\ UNCHANGED <<translation_cache, audio_cache, audio_origin>>
       ELSE \E tr \in Translation(request, translation_cache, GEMINI_API_KEY) :
              \E syn \in Synthesis(request, tr.call.result, polly_client) :
                 /\ translation_cache' = tr.call.cache
                 /\ IF syn.call.ok
                    THEN /\ audio_cache' = (cache_key :> syn.call.audio) @@ audio_cache
                         /\ audio_origin' = (cache_key :> request) @@ audio_origin
                    ELSE UNCHANGED <<audio_cache, audio_origin>>
                 /\ last' = MissRecord(request, cache_key, tr, syn)

(***************************************************************************)
(* The other endpoints, lines 479-511.                                     *)
(***************************************************************************)
health_check ==
    /\ last' = [op |-> "health",
                response |-> [status |-> "healthy",
                              gemini_configured |-> GEMINI_API_KEY # None,
                              aws_polly_configured |-> polly_client # None,
                              translation_cache_size |->
                                  Cardinality(DOMAIN translation_cache),
                              audio_cache_size |-> Cardinality(DOMAIN audio_cache)]]
    /\ UNCHANGED <<translation_cache, audio_cache, audio_origin, n_requests,
                   polly_client, GEMINI_API_KEY, unit_vars>>

\* Mutant: only the audio cache is emptied.
clear_cache_AudioOnly ==
    /\ audio_cache' = <<>>
    /\ audio_origin' = <<>>
    /\ last' = [op |-> "clear", response |-> "Cache cleared successfully",
                cleared |-> [translation |-> Cardinality(DOMAIN translation_cache),
                             audio |-> Cardinality(DOMAIN audio_cache)]]
    /\ UNCHANGED <<translation_cache, n_requests, polly_client, GEMINI_API_KEY,
                   unit_vars>>

\* Lines 492-497; last keeps how many entries the call dropped.
clear_cache ==
    /\ translation_cache' = <<>>
    /\ audio_cache' = <<>>
    /\ audio_origin' = <<>>
    /\ last' = [op |-> "clear", response |-> "Cache cleared successfully",
                cleared |-> [translation |-> Cardinality(DOMAIN translation_cache),
                             audio |-> Cardinality(DOMAIN audio_cache)]]
    /\ UNCHANGED <<n_requests, polly_client, GEMINI_API_KEY, unit_vars>>

cache_stats ==
    /\ last' = [op |-> "stats",
                response |-> [translation_cache_size |->
                                  Cardinality(DOMAIN translation_cache),
                              translation_cache_keys |-> DOMAIN translation_cache,
                              audio_cache_size |-> Cardinality(DOMAIN audio_cache),
                              audio_cache_keys |-> DOMAIN audio_cache]]
    /\ UNCHANGED <<translation_cache, audio_cache, audio_origin, n_requests,
                   polly_client, GEMINI_API_KEY, unit_vars>>

(***************************************************************************)
(* The texts of the model.                                                 *)
(***************************************************************************)
Rep(c, n) == [i \in 1..n |-> c]

\* A sentence of n characters.
Sentence(n) == Rep("a", n - 1) \o <<".">>

\* One chunk for every limit.
TShort == <<"a", "b", ".">>

\* 251 characters: two chunks of speech for Sarvam, one for Polly.
TTwo == Sentence(150) \o <<" ">> \o Sentence(100)

\* The requests of the model: every field the handler reads, the fields the
\* claims turn on varied.
DefaultRequest ==
    [input_text |-> TShort, source_lang |-> <<"auto">>, target_lang |-> <<"hi", "IN">>,
     speaker |-> "abhilash", voice |-> None, pitch |-> 0, pace |-> 1, loudness |-> 1,
     speech_sample_rate |-> 24000, enable_preprocessing |-> FALSE,
     engine |-> "standard", output_format |-> "mp3"]

SourceLangs == {<<"auto">>, <<"hi", "IN">>, <<"hi">>}

\* Requests for Backend A: the short text, every source, two sample rates.
RegionalRequests ==
    {[DefaultRequest EXCEPT !.source_lang = s, !.speech_sample_rate = r] :
        s \in SourceLangs, r \in {24000, 8000}}

\* Requests for Backend B: the short text, every source, two output formats.
InternationalRequests ==
    {[DefaultRequest EXCEPT !.source_lang = s, !.target_lang = <<"en", "US">>,
                            !.output_format = f] :
        s \in SourceLangs, f \in {"mp3", "pcm"}}

\* The two-chunk text, in the target language already.
LongRequests ==
    {[DefaultRequest EXCEPT !.input_text = TTwo, !.source_lang = <<"hi">>]}

Requests == RegionalRequests \cup InternationalRequests \cup LongRequests

\* How many /tts requests a behaviour holds.
MaxRequests == 2

UnitIdle == args = <<>> /\ returned = <<>> /\ pc = "idle"

Init ==
    /\ translation_cache = <<>>
    /\ audio_cache = <<>>
    /\ audio_origin = <<>>
    /\ polly_client \in {None, "client"}
    /\ GEMINI_API_KEY = "key"
    /\ last = [op |-> "none"]
    /\ n_requests = 0
    /\ UnitIdle

text_to_speech ==
    /\ n_requests < MaxRequests
    /\ \E request \in Requests : text_to_speech_request(request)
    /\ n_requests' = n_requests + 1
    /\ UNCHANGED <<polly_client, GEMINI_API_KEY, unit_vars>>

Next == text_to_speech \/ health_check \/ clear_cache \/ cache_stats

Spec == Init /\ [][Next]_vars

(***************************************************************************)
(* Unit calls: one function called once on arguments drawn from a bounded  *)
(* set, the service left idle.                                             *)
(***************************************************************************)
ServiceIdle ==
    /\ translation_cache = <<>>
    /\ audio_cache = <<>>
    /\ audio_origin = <<>>
    /\ polly_client = "client"
    /\ GEMINI_API_KEY = "key"
    /\ last = [op |-> "none"]
    /\ n_requests = 0

\* chunk_text on every string of at most MaxLen characters and every limit
\* in 1..MaxChars.
ChunkInit ==
    /\ args \in [text : Strings(MaxLen), max_chars : 1..MaxChars]
    /\ returned = <<>>
    /\ pc = "call"
    /\ ServiceIdle

chunk_text_call ==
    /\ pc = "call"
    /\ returned' = chunk_text(args.text, args.max_chars)
    /\ pc' = "done"
    /\ UNCHANGED <<args, service_vars>>

ChunkNext == chunk_text_call

ChunkSpec == ChunkInit /\ [][ChunkNext]_vars

\* get_polly_voice on every language code of the two tables and some codes of
\* neither, and on every voice name of the table, a Sarvam speaker, the empty
\* string and no voice.
LangCodes ==
    DOMAIN POLLY_LANGUAGES \cup INDIAN_LANGUAGES
        \cup {<<"xx", "XX">>, <<"hi">>, <<"en">>, <<"auto">>}

VoiceNames ==
    UNION {Range(POLLY_LANGUAGES[l].voices) : l \in DOMAIN POLLY_LANGUAGES}
        \cup {"abhilash", "", None}

VoiceInit ==
    /\ args \in [lang_code : LangCodes, requested_voice : VoiceNames]
    /\ returned = <<>>
    /\ pc = "call"
    /\ ServiceIdle

get_polly_voice_call ==
    /\ pc = "call"
    /\ returned' = get_polly_voice(args.lang_code, args.requested_voice)
    /\ pc' = "done"
    /\ UNCHANGED <<args, service_vars>>

VoiceNext == get_polly_voice_call

VoiceSpec == VoiceInit /\ [][VoiceNext]_vars

(***************************************************************************)
(* The synthesis adapters called on their own.                             *)
(***************************************************************************)
\* 602 characters: three chunks of speech for Sarvam.
TThree == Sentence(200) \o <<" ">> \o Sentence(200) \o <<" ">> \o Sentence(200)

\* 4202 characters: two chunks of speech for Polly.
TLong == Sentence(1400) \o <<" ">> \o Sentence(1400) \o <<" ">> \o Sentence(1400)

\* 3001 blanks: no chunk at all, for either backend.
TBlank == Rep(" ", 3001)

SynthTexts == {TShort, TTwo, TThree, TLong, TBlank}

\* The most backend calls one synthesis makes in the model.
MaxChunks == 3

SynthInit ==
    /\ args \in [backend : {"sarvam", "polly"}, text : SynthTexts,
                 output_format : {"mp3", "pcm"}]
    /\ returned = <<>>
    /\ pc = "call"
    /\ translation_cache = <<>>
    /\ audio_cache = <<>>
    /\ audio_origin = <<>>
    /\ polly_client \in {None, "client"}
    /\ GEMINI_API_KEY = "key"
    /\ last = [op |-> "none"]
    /\ n_requests = 0

synthesize_speech_sarvam_call ==
    /\ pc = "call"
    /\ args.backend = "sarvam"
    /\ Len(chunk_text(args.text, TTS_MAX_CHARS)) <= MaxChunks
    /\ \E call \in synthesize_speech_sarvam(args.text,
                         DefaultRequest.speaker, DefaultRequest.pitch,
                         DefaultRequest.target_lang, DefaultRequest.pace,
                         DefaultRequest.loudness, DefaultRequest.speech_sample_rate,
                         DefaultRequest.enable_preprocessing) :
         returned' = [env |-> call.env, call |-> call]
    /\ pc' = "done"
    /\ UNCHANGED <<args, service_vars>>

synthesize_speech_polly_call ==
    /\ pc = "call"
    /\ args.backend = "polly"
    /\ Len(chunk_text(args.text, POLLY_MAX_CHARS)) <= MaxChunks
    /\ \E call \in synthesize_speech_polly(args.text, "Joanna", <<"en", "US">>,
                         DefaultRequest.engine, args.output_format, polly_client) :
         returned' = [env |-> call.env, call |-> call]
    /\ pc' = "done"
    /\ UNCHANGED <<args, service_vars>>

SynthNext == synthesize_speech_sarvam_call \/ synthesize_speech_polly_call

SynthSpec == SynthInit /\ [][SynthNext]_vars

(***************************************************************************)
(* translate_text called on its own, the translation cache kept between    *)
(* the calls.                                                              *)
(***************************************************************************)
\* 1001 characters: two chunks for the translators.
TMid == Sentence(600) \o <<" ">> \o Sentence(400)

TranslateInit ==
    /\ translation_cache = <<>>
    /\ audio_cache = <<>>
    /\ audio_origin = <<>>
    /\ polly_client = "client"
    /\ GEMINI_API_KEY \in {None, "key"}
    /\ last = [op |-> "none"]
    /\ n_requests = 0
    /\ UnitIdle

translate_text_call ==
    /\ n_requests < MaxRequests
    /\ \E text \in {TShort, TMid}, target_lang \in {<<"hi", "IN">>, <<"en", "US">>} :
         \E call \in translate_text(text, <<"auto">>, target_lang,
                                    translation_cache, GEMINI_API_KEY) :
            /\ translation_cache' = call.cache
            /\ last' = [op |-> "translate", text |-> text,
                        source_lang |-> <<"auto">>, target_lang |-> target_lang,
                        env |-> call.env, hit |-> call.hit, raised |-> call.raised,
                        log |-> call.log, result |-> call.result]
    /\ n_requests' = n_requests + 1
    /\ UNCHANGED <<audio_cache, audio_origin, polly_client, GEMINI_API_KEY, unit_vars>>

TranslateNext == translate_text_call \/ (clear_cache /\ last.op # "clear")

TranslateSpec == TranslateInit /\ [][TranslateNext]_vars

(***************************************************************************)
(* The chunker's contract.                                                 *)
(***************************************************************************)
\* The characters of s that are not white space, in order.
NonSpace(s) == SelectSeq(s, LAMBDA c : ~IsSpace(c))

ChunkDone == pc = "done"

\* C1: for every input string and every positive max_chars, every chunk that
\* chunk_text returns has at most max_chars characters.
C1_ChunkBound ==
    ChunkDone => \A k \in 1..Len(returned) : Len(returned[k]) <= args.max_chars

\* C1 witness: a word longer than the limit was cut by the final safety split.
C1_Witness ==
    /\ ChunkDone
    /\ \E w \in Range(split(args.text)) : Len(w) > args.max_chars
    /\ Len(returned) >= 2
    /\ \A k \in 1..Len(returned) : Len(returned[k]) <= args.max_chars

\* C2: joining the returned chunks with single spaces gives a string whose
\* non-white-space characters, in order, are those of the input, whichever
\* path produced the chunks.
C2_Reassembly ==
    ChunkDone => NonSpace(join(returned)) = NonSpace(args.text)

\* C2 witness: a text of several sentences, longer than the limit, one of its
\* words longer than the limit too, so that the sentence loop, the word loop
\* and the hard slicing all took part.
C2_Witness ==
    /\ ChunkDone
    /\ Len(args.text) > args.max_chars
    /\ Len(re_split(strip(args.text))) >= 2
    /\ \E w \in Range(split(args.text)) : Len(w) > args.max_chars
    /\ \E w \in Range(split(args.text)) : Len(w) < args.max_chars
    /\ Len(returned) >= 3
    /\ NonSpace(join(returned)) = NonSpace(args.text)

\* C10 as claimed: for every input string chunk_text returns no empty chunk.
C10_NoEmptyChunk ==
    ChunkDone => \A k \in 1..Len(returned) : Len(returned[k]) >= 1

\* C10 as amended: for every input string that is not empty chunk_text returns
\* no empty chunk; for the empty string it returns the empty string as the one
\* chunk.
C10_NoEmptyChunkOfNonEmptyText ==
    ChunkDone =>
        IF args.text = <<>> THEN returned = << <<>> >>
        ELSE \A k \in 1..Len(returned) : Len(returned[k]) >= 1

\* C10 witness: a text with white space at both ends, longer than the limit,
\* was chunked into chunks that are not empty.
C10_Witness ==
    /\ ChunkDone
    /\ Len(args.text) > args.max_chars
    /\ IsSpace(args.text[1])
    /\ IsSpace(args.text[Len(args.text)])
    /\ Len(returned) >= 2
    /\ \A k \in 1..Len(returned) : Len(returned[k]) >= 1

(***************************************************************************)
(* The voice table.                                                        *)
(***************************************************************************)
DefaultVoices == POLLY_LANGUAGES[<<"en", "US">>].voices

\* C9 as claimed: for a language code absent from the voice table, whatever
\* voice is requested, get_polly_voice returns the first en-US voice.
C9_AbsentLanguageFirstDefaultVoice ==
    (pc = "done" /\ args.lang_code \notin DOMAIN POLLY_LANGUAGES)
        => returned = DefaultVoices[1]

\* C9 as amended: for a language code absent from the voice table
\* get_polly_voice returns the requested voice when that is one of the en-US
\* voices, and the first en-US voice otherwise (also when none is requested).
C9_AbsentLanguageDefaultVoices ==
    (pc = "done" /\ args.lang_code \notin DOMAIN POLLY_LANGUAGES)
        => returned = IF args.requested_voice \in Range(DefaultVoices)
                      THEN args.requested_voice
                      ELSE DefaultVoices[1]

\* C9 witness: an absent language code and the request of an en-US voice that
\* is not the first one.
C9_Witness ==
    /\ pc = "done"
    /\ args.lang_code = <<"xx", "XX">>
    /\ args.requested_voice = "Matthew"
    /\ returned = "Matthew"

(***************************************************************************)
(* The synthesis adapters.                                                 *)
(***************************************************************************)
SynthDone == pc = "done" /\ (args.backend = "polly" => polly_client # None)

\* The segment the claim expects for chunk k of a synthesis.
IsExpectedSegment(part, chunk, outcome) ==
    IF outcome = 0
    THEN part = [kind |-> "silence", ms |-> 1000]
    ELSE part.kind = "speech" /\ part.ms = outcome /\ part.spoken.text = chunk

RECURSIVE Sum(_)
Sum(durations) == IF durations = <<>> THEN 0 ELSE Head(durations) + Sum(Tail(durations))

\* C6: for a text of N >= 2 chunks of which at least one is synthesized, the
\* call succeeds and the track is the N segments in chunk order (the speech of
\* a chunk, 1000 ms of silence for a failed one) with a 200 ms gap between
\* consecutive segments: N - 1 gaps, and a duration of the segments' sum plus
\* 200 * (N - 1) ms.
C6_DegradeNotFail ==
    LET chunks == returned.call.chunks
        N == Len(chunks)
        env == returned.env
        track == returned.call.audio.track
    IN (SynthDone /\ N >= 2 /\ \E k \in 1..N : env[k] # 0) =>
          /\ returned.call.ok
          /\ Len(track) = 2 * N - 1
          /\ \A k \in 1..N : IsExpectedSegment(track[2 * k - 1], chunks[k], env[k])
          /\ \A k \in 1..(N - 1) : track[2 * k] = [kind |-> "silence", ms |-> 200]
          /\ Duration(track) =
                Sum([k \in 1..N |-> IF env[k] = 0 THEN 1000 ELSE env[k]])
                    + 200 * (N - 1)

\* C6 witness: three chunks, the call for the second one failed.
C6_Witness ==
    /\ SynthDone
    /\ Len(returned.call.chunks) = 3
    /\ returned.env[1] # 0 /\ returned.env[2] = 0 /\ returned.env[3] # 0
    /\ returned.call.ok
    /\ Len(returned.call.audio.track) = 5

\* C5 as claimed: when the backend call fails for every chunk of the text,
\* however many chunks there are, the synthesis raises and /tts answers with
\* a server error.
C5_TotalFailureIsFatal ==
    (/\ last.op = "tts"
     /\ ~last.cache_hit
     /\ Len(last.synth_env) >= 1
     /\ \A k \in 1..Len(last.synth_env) : last.synth_env[k] = 0)
        => (~last.synth.ok /\ last.status = 500)

(***************************************************************************)
(* The translation adapter.                                                *)
(***************************************************************************)
\* The piece the claim expects for a chunk under an outcome.
ExpectedPiece(chunk, outcome) ==
    IF outcome = "primary" THEN PrimaryText(chunk)
    ELSE IF outcome = "fallback" /\ GEMINI_API_KEY # None
    THEN strip(FallbackText(chunk))
    ELSE chunk

\* C7: whatever the translators' outcomes, translate_text returns, and what it
\* returns is the single-space join of one piece per chunk in chunk order: the
\* primary translator's text if that call succeeded, else the fallback's text
\* (stripped, as the code takes it) if that call succeeded, else the chunk
\* itself; the fallback is called for a chunk only after the primary call for
\* that chunk failed.
C7_TranslationNeverFails ==
    (last.op = "translate" /\ ~last.hit) =>
        LET chunks == chunk_text(last.text, TRANSLATE_MAX_CHARS)
        IN /\ ~last.raised
           /\ Len(last.log) = Len(chunks)
           /\ last.result =
                 join([k \in 1..Len(chunks) |-> ExpectedPiece(chunks[k], last.env[k])])
           /\ \A k \in 1..Len(chunks) :
                 /\ last.log[k].primary_ok = (last.env[k] = "primary")
                 /\ last.log[k].fallback_called => ~last.log[k].primary_ok

\* C7 witness: two chunks, the primary translator failed for both, the
\* fallback translated the first and failed for the second.
C7_Witness ==
    /\ last.op = "translate"
    /\ ~last.hit
    /\ GEMINI_API_KEY # None
    /\ last.env = <<"fallback", "fail">>
    /\ ~last.raised
    /\ last.result = strip(FallbackText(last.log[1].chunk)) \o <<" ">> \o last.log[2].chunk

(***************************************************************************)
(* The /tts handler.                                                       *)
(***************************************************************************)
\* The request fields the handler hands to translation or to the selected
\* synthesis adapter, lines 419-423, 428-437 and 441-448.
PassedOn(request) ==
    IF is_indian_language(request.target_lang)
    THEN <<request.input_text, request.source_lang, request.target_lang,
           request.speaker, request.pitch, request.pace, request.loudness,
           request.speech_sample_rate, request.enable_preprocessing>>
    ELSE <<request.input_text, request.source_lang, request.target_lang,
           RequestedVoice(request), request.engine, request.output_format>>

\* C3 as claimed: a /tts cache hit returns audio that was computed for a
\* request with the same text and the same values of every field passed on to
\* translation or synthesis.
C3_HitHasSameParameters ==
    (last.op = "tts" /\ last.cache_hit) =>
        PassedOn(audio_origin[last.cache_key]) = PassedOn(last.request)

\* The content type of the container the claim expects for a request.
ProducedMediaType(request) ==
    IF is_indian_language(request.target_lang) THEN "audio/wav"
    ELSE IF request.output_format = "mp3" THEN "audio/mp3"
    ELSE "audio/wav"

\* C4 as claimed: every successful /tts response, fresh or from the cache,
\* carries audio/wav for Backend A and, for Backend B, audio/mp3 when
\* output_format is mp3 and audio/wav otherwise.
C4_MediaTypeOfProducedFormat ==
    (last.op = "tts" /\ last.status = 200) =>
        last.media_type = ProducedMediaType(last.request)

\* C8 as claimed: when source_lang equals target_lang the handler does not
\* call translate_text and hands input_text to the synthesis unchanged.
C8_SameLanguageNotTranslated ==
    (/\ last.op = "tts"
     /\ ~last.cache_hit
     /\ last.request.source_lang = last.request.target_lang)
        => (~last.translated /\ last.text_to_speak = last.request.input_text)

(***************************************************************************)
(* Backend selection: one /tts request for every target language code of   *)
(* the two tables and some codes of neither.                               *)
(***************************************************************************)
RouteRequests == {[DefaultRequest EXCEPT !.target_lang = l] : l \in LangCodes}

RouteInit == Init

route_request ==
    /\ last.op = "none"
    /\ \E request \in RouteRequests : text_to_speech_request(request)
    /\ n_requests' = n_requests + 1
    /\ UNCHANGED <<polly_client, GEMINI_API_KEY, unit_vars>>

RouteNext == route_request

RouteSpec == RouteInit /\ [][RouteNext]_vars

\* C11: /tts calls Sarvam, and not Polly, when the target language code is in
\* the regional set, and Polly, and not Sarvam, for every other code; a code
\* that is in the regional set and in the Polly voice table goes to Sarvam.
C11_OneBackendByRegion ==
    (last.op = "tts" /\ ~last.cache_hit) =>
        LET backend == IF last.request.target_lang \in INDIAN_LANGUAGES
                       THEN "sarvam" ELSE "polly"
        IN /\ last.backend = backend
           /\ last.status = 200 => last.content.spoken.backend = backend

\* C11 witness: hi-IN, which is in both tables, was spoken by Sarvam.
C11_Witness ==
    /\ last.op = "tts"
    /\ last.request.target_lang = <<"hi", "IN">>
    /\ <<"hi", "IN">> \in DOMAIN POLLY_LANGUAGES
    /\ last.status = 200
    /\ last.content.spoken.backend = "sarvam"

(***************************************************************************)
(* The translation cache.                                                  *)
(***************************************************************************)
\* C12: a call of translate_text leaves its result in the translation cache
\* under the fingerprint of (text, source_lang, target_lang); a call that
\* finds the fingerprint there returns the stored text, invokes neither
\* translator and leaves the cache as it was.
C12_CacheFastPath ==
    [][last'.op = "translate" =>
          LET k == TranslationKey(last'.text, last'.source_lang, last'.target_lang)
          IN /\ k \in DOMAIN translation_cache'
             /\ translation_cache'[k] = last'.result
             /\ k \in DOMAIN translation_cache =>
                   /\ last'.result = translation_cache[k]
                   /\ last'.hit
                   /\ last'.log = <<>>
                   /\ translation_cache' = translation_cache]_vars

\* C12 witness: the two-chunk text was translated with the help of the
\* fallback, and a second call for it was answered from the cache.
C12_Witness ==
    /\ last.op = "translate"
    /\ last.text = TMid
    /\ last.hit
    /\ last.log = <<>>
    /\ n_requests = 2
    /\ last.result = join(<<strip(FallbackText(Sentence(600))), PrimaryText(Sentence(400))>>)

(***************************************************************************)
(* The optional backend.                                                   *)
(***************************************************************************)
\* C13: without a Polly client every /tts request routed to Polly ends in a
\* server error, and a request routed to Sarvam is answered as Sarvam
\* answered it: it fails only when its single Sarvam call failed.
C13_MissingClientFailsOnlyPolly ==
    (polly_client = None /\ last.op = "tts") =>
        IF last.request.target_lang \in INDIAN_LANGUAGES
        THEN \/ last.cache_hit /\ last.status = 200
             \/ /\ ~last.cache_hit
                /\ last.backend = "sarvam"
                /\ last.status \in {200, 500}
                /\ last.status = 500 <=>
                      (Len(last.synth.chunks) = 1 /\ last.synth_env = <<0>>)
        ELSE /\ last.status = 500
             /\ ~last.cache_hit

\* C13 witness: without a Polly client, a request for hi-IN was spoken and
\* cached, and the request for en-US that followed ended in a server error.
C13_Witness ==
    /\ polly_client = None
    /\ last.op = "tts"
    /\ last.request.target_lang = <<"en", "US">>
    /\ last.status = 500
    /\ \E k \in DOMAIN audio_cache :
          audio_origin[k].target_lang = <<"hi", "IN">>

\* C14: fast path: for a string of at most max_chars characters chunk_text
\* returns exactly one chunk, equal to the string character for character.
C14_FastPathIdentity ==
    (ChunkDone /\ Len(args.text) <= args.max_chars) => returned = << args.text >>

\* C14 witness: a string within the limit, with white space at both ends,
\* came back as the one chunk, the white space kept.
C14_Witness ==
    /\ ChunkDone
    /\ args.text = <<" ", "a", "\n">>
    /\ args.max_chars = 3
    /\ returned = << <<" ", "a", "\n">> >>

(***************************************************************************)
(* generate_cache_key called on its own: the keyword arguments of a call   *)
(* in every order a caller can write them.                                 *)
(***************************************************************************)
\* The orders in which the items of the set S can be written.
Orders(S) ==
    {q \in [1..Cardinality(S) -> S] :
        \A i, j \in 1..Cardinality(S) : q[i] = q[j] => i = j}

KeyFields ==
    {{<<"source_lang", s>>, <<"target_lang", t>>, <<"voice", v>>} :
        s \in {<<"auto">>, <<"hi">>},
        t \in {<<"hi", "IN">>, <<"en", "US">>},
        v \in {None, "Joanna"}}
    \cup {{<<"source", s>>, <<"target", t>>} :
             s \in {<<"auto">>, <<"hi">>}, t \in {<<"hi", "IN">>, <<"en", "US">>}}

KeyInit ==
    /\ \E fields \in KeyFields :
          args \in [text : {<<>>, TShort}, kwargs : Orders(fields)]
    /\ returned = <<>>
    /\ pc = "call"
    /\ ServiceIdle

generate_cache_key_call ==
    /\ pc = "call"
    /\ returned' = generate_cache_key(args.text, args.kwargs)
    /\ pc' = "done"
    /\ UNCHANGED <<args, service_vars>>

KeyNext == generate_cache_key_call

KeySpec == KeyInit /\ [][KeyNext]_vars

\* C15: generate_cache_key returns the same fingerprint for the same text and
\* the same named field values, whatever the order the fields are written in.
C15_KeyIgnoresFieldOrder ==
    pc = "done" =>
        \A q \in Orders(Range(args.kwargs)) :
            generate_cache_key(args.text, q) = returned

\* C15 witness: the fields were written in descending order of their names.
C15_Witness ==
    /\ pc = "done"
    /\ Len(args.kwargs) = 3
    /\ args.kwargs[1][1] = "voice"
    /\ args.kwargs[2][1] = "target_lang"
    /\ args.kwargs[3][1] = "source_lang"
    /\ returned = generate_cache_key(args.text,
                      <<args.kwargs[3], args.kwargs[2], args.kwargs[1]>>)

(***************************************************************************)
(* The chunker on texts of words: long enough for a long sentence to       *)
(* follow a short one.                                                     *)
(***************************************************************************)
MaxWordsLen == 7

WordAlphabet == {"a", ".", " "}

RECURSIVE WordStrings(_)
WordStrings(n) ==
    IF n = 0 THEN { <<>> }
    ELSE LET shorter == WordStrings(n - 1)
         IN shorter \cup {Append(s, c) : s \in {t \in shorter : Len(t) = n - 1},
                                         c \in WordAlphabet}

WordsInit ==
    /\ args \in [text : WordStrings(MaxWordsLen), max_chars : 1..MaxChars]
    /\ returned = <<>>
    /\ pc = "call"
    /\ ServiceIdle

chunk_words_call ==
    /\ pc = "call"
    /\ returned' = chunk_text(args.text, args.max_chars)
    /\ pc' = "done"
    /\ UNCHANGED <<args, service_vars>>

WordsNext == chunk_words_call

WordsSpec == WordsInit /\ [][WordsNext]_vars

\* The words of all the chunks.
ChunkWords(chunks) == UNION {Range(split(chunks[k])) : k \in 1..Len(chunks)}

\* C16: a sentence longer than max_chars is packed word by word wherever it
\* stands, so every word of the text of at most max_chars characters is a
\* whole word of some returned chunk, and only longer words are sliced.
C16_ShortWordsStayWhole ==
    pc = "done" =>
        \A w \in Range(split(args.text)) :
            Len(w) <= args.max_chars => w \in ChunkWords(returned)

(***************************************************************************)
(* Concurrent requests.  text_to_speech is a plain def, which the          *)
(* framework runs on a pool of threads: the handlers of two requests       *)
(* interleave, and a thread can be suspended at each call over the         *)
(* network.  A thread is at "idle", "translate", "translating",            *)
(* "synthesize" or "store"; args holds what each thread has in its local   *)
(* variables.                                                              *)
(***************************************************************************)
MaxThreads == 2

Threads == 1..MaxThreads

RaceRequests ==
    {[DefaultRequest EXCEPT !.source_lang = s, !.speech_sample_rate = r] :
        s \in {<<"auto">>, <<"hi">>}, r \in {24000, 8000}}

RaceInit ==
    /\ translation_cache = <<>>
    /\ audio_cache = <<>>
    /\ audio_origin = <<>>
    /\ polly_client = "client"
    /\ GEMINI_API_KEY = "key"
    /\ last = [op |-> "none"]
    /\ n_requests = 0
    /\ args = [t \in Threads |-> <<>>]
    /\ pc = [t \in Threads |-> "idle"]
    /\ returned = <<>>

\* Lines 398-414: the fingerprint and the look into the audio cache.
tts_enter(t) ==
    /\ pc[t] = "idle"
    /\ n_requests < MaxRequests
    /\ n_requests' = n_requests + 1
    /\ \E request \in RaceRequests :
          LET cache_key == AudioKey(request)
          IN IF cache_key \in DOMAIN audio_cache
             THEN /\ last' = HitRecord(request, cache_key)
                  /\ UNCHANGED <<args, pc>>
             ELSE /\ args' = [args EXCEPT ![t] =
                                 [request |-> request, cache_key |-> cache_key,
                                  text_to_speak |-> request.input_text,
                                  audio |-> <<>>, media_type |-> None]]
                  /\ pc' = [pc EXCEPT ![t] = "translate"]
                  /\ last' = [op |-> "enter", thread |-> t]
    /\ UNCHANGED <<returned, translation_cache, audio_cache, audio_origin,
                   polly_client, GEMINI_API_KEY>>

\* Lines 417-418 and 182-185: the look into the translation cache.
tts_translate_lookup(t) ==
    /\ pc[t] = "translate"
    /\ LET request == args[t].request
           cache_key == TranslationKey(request.input_text, request.source_lang,
                                       request.target_lang)
       IN IF ~NeedsTranslation(request)
          THEN /\ pc' = [pc EXCEPT ![t] = "synthesize"]
               /\ UNCHANGED args
          ELSE IF cache_key \in DOMAIN translation_cache
          THEN /\ args' = [args EXCEPT ![t].text_to_speak = translation_cache[cache_key]]
               /\ pc' = [pc EXCEPT ![t] = "synthesize"]
          ELSE /\ pc' = [pc EXCEPT ![t] = "translating"]
               /\ UNCHANGED args
    /\ last' = [op |-> "translate_lookup", thread |-> t]
    /\ UNCHANGED <<returned, translation_cache, audio_cache, audio_origin,
                   polly_client, GEMINI_API_KEY, n_requests>>

\* Lines 187-239: the translators were called, the result is stored.
tts_translate_store(t) ==
    /\ pc[t] = "translating"
    /\ LET request == args[t].request
           cache_key == TranslationKey(request.input_text, request.source_lang,
                                       request.target_lang)
           chunks == chunk_text(request.input_text, TRANSLATE_MAX_CHARS)
       IN \E env \in [1..Len(chunks) -> TranslationOutcomes] :
             LET call == TranslateChunks(chunks, cache_key, translation_cache,
                                         GEMINI_API_KEY, env)
             IN /\ translation_cache' = call.cache
                /\ args' = [args EXCEPT ![t].text_to_speak = call.result]
    /\ pc' = [pc EXCEPT ![t] = "synthesize"]
    /\ last' = [op |-> "translate_store", thread |-> t]
    /\ UNCHANGED <<returned, audio_cache, audio_origin, polly_client,
                   GEMINI_API_KEY, n_requests>>

\* Lines 425-449, and line 460 when the adapter raised.
tts_synthesize(t) ==
    /\ pc[t] = "synthesize"
    /\ \E syn \in Synthesis(args[t].request, args[t].text_to_speak, polly_client) :
          IF syn.call.ok
          THEN /\ args' = [args EXCEPT ![t].audio = syn.call.audio,
                                       ![t].media_type = syn.media_type]
               /\ pc' = [pc EXCEPT ![t] = "store"]
               /\ last' = [op |-> "synthesize", thread |-> t]
          ELSE /\ args' = [args EXCEPT ![t] = <<>>]
               /\ pc' = [pc EXCEPT ![t] = "idle"]
               /\ last' = [op |-> "tts", thread |-> t, status |-> 500,
                           content |-> syn.call.error]
    /\ UNCHANGED <<returned, translation_cache, audio_cache, audio_origin,
                   polly_client, GEMINI_API_KEY, n_requests>>

\* Lines 451-457.
tts_store(t) ==
    /\ pc[t] = "store"
    /\ audio_cache' = (args[t].cache_key :> args[t].audio) @@ audio_cache
    /\ audio_origin' = (args[t].cache_key :> args[t].request) @@ audio_origin
    /\ last' = [op |-> "tts", thread |-> t, status |-> 200,
                media_type |-> args[t].media_type, content |-> args[t].audio]
    /\ args' = [args EXCEPT ![t] = <<>>]
    /\ pc' = [pc EXCEPT ![t] = "idle"]
    /\ UNCHANGED <<returned, translation_cache, polly_client, GEMINI_API_KEY,
                   n_requests>>

\* clear_cache between the steps of the threads.
race_clear_cache ==
    /\ last.op # "clear"
    /\ translation_cache' = <<>>
    /\ audio_cache' = <<>>
    /\ audio_origin' = <<>>
    /\ last' = [op |-> "clear", response |-> "Cache cleared successfully"]
    /\ UNCHANGED <<n_requests, polly_client, GEMINI_API_KEY, unit_vars>>

RaceNext ==
    \/ \E t \in Threads :
          \/ tts_enter(t)
          \/ tts_translate_lookup(t)
          \/ tts_translate_store(t)
          \/ tts_synthesize(t)
          \/ tts_store(t)
    \/ race_clear_cache

RaceSpec == RaceInit /\ [][RaceNext]_vars

\* C17: in each cache, a write to a key that is present stores the value the
\* key already has, so concurrent requests never change what a key maps to
\* between two clears.
C17_WritesAgree ==
    [][/\ \A k \in DOMAIN translation_cache \cap DOMAIN translation_cache' :
             translation_cache'[k] = translation_cache[k]
       /\ \A k \in DOMAIN audio_cache \cap DOMAIN audio_cache' :
             audio_cache'[k] = audio_cache[k]]_vars

(***************************************************************************)
(* The life of a cache entry.                                              *)
(***************************************************************************)
\* C18: a step that is not a clear keeps every key of both caches; a clear
\* empties both caches; health and stats report the sizes of the caches,
\* which is 0 for both right after a clear; the request that follows a clear
\* finds nothing in either cache and computes its result.
C18_CacheLifecycle ==
    [][/\ last'.op # "clear" =>
             /\ DOMAIN translation_cache \subseteq DOMAIN translation_cache'
             /\ DOMAIN audio_cache \subseteq DOMAIN audio_cache'
       /\ last'.op = "clear" =>
             /\ translation_cache' = <<>>
             /\ audio_cache' = <<>>
       /\ last'.op = "health" =>
             /\ last'.response.translation_cache_size =
                   Cardinality(DOMAIN translation_cache')
             /\ last'.response.audio_cache_size = Cardinality(DOMAIN audio_cache')
             /\ last.op = "clear" =>
                   /\ last'.response.translation_cache_size = 0
                   /\ last'.response.audio_cache_size = 0
       /\ last'.op = "stats" =>
             /\ last'.response.translation_cache_size =
                   Cardinality(DOMAIN translation_cache')
             /\ last'.response.audio_cache_size = Cardinality(DOMAIN audio_cache')
             /\ last.op = "clear" =>
                   /\ last'.response.translation_cache_size = 0
                   /\ last'.response.audio_cache_size = 0
       /\ (last'.op = "tts" /\ last.op = "clear") =>
             /\ ~last'.cache_hit
             /\ last'.translated => ~last'.translation.hit]_vars

\* C18 witness: a clear dropped an entry of each cache and left both empty.
C18_Witness ==
    /\ last.op = "clear"
    /\ last.cleared.translation >= 1
    /\ last.cleared.audio >= 1
    /\ translation_cache = <<>>
    /\ audio_cache = <<>>

(***************************************************************************)
(* The handler's effect on the audio cache.                                *)
(***************************************************************************)
\* C19: a /tts request that ends in an error leaves the audio cache as it
\* was; a request changes the audio cache only by storing, after a successful
\* synthesis, the audio it returns under its own fingerprint.
C19_ErrorLeavesAudioCache ==
    [][last'.op = "tts" =>
          /\ last'.status = 500 => audio_cache' = audio_cache
          /\ last'.cache_hit => audio_cache' = audio_cache
          /\ audio_cache' # audio_cache =>
                /\ last'.status = 200
                /\ last'.synth.ok
                /\ last'.cache_key = AudioKey(last'.request)
                /\ DOMAIN audio_cache' = DOMAIN audio_cache \cup {last'.cache_key}
                /\ audio_cache'[last'.cache_key] = last'.content
                /\ \A k \in DOMAIN audio_cache : audio_cache'[k] = audio_cache[k]]_vars

\* C19 witness: a request was spoken and cached, and the request after it
\* ended in an error with that entry still the only one.
C19_Witness ==
    /\ last.op = "tts"
    /\ last.status = 500
    /\ n_requests = 2
    /\ Cardinality(DOMAIN audio_cache) = 1
    /\ last.cache_key \notin DOMAIN audio_cache

(***************************************************************************)
(* The voice selection as a whole.                                         *)
(***************************************************************************)
\* C20: get_polly_voice returns a voice of the table's list for the
\* effective language, which is the requested language when the table has it
\* and en-US otherwise: the requested voice when that list has it, the
\* list's first voice when not.
C20_VoiceOfEffectiveLanguage ==
    pc = "done" =>
        LET effective == IF args.lang_code \in DOMAIN POLLY_LANGUAGES
                         THEN args.lang_code ELSE <<"en", "US">>
            listed == POLLY_LANGUAGES[effective].voices
        IN /\ Len(listed) >= 1
           /\ \E i \in 1..Len(listed) : returned = listed[i]
           /\ (\E i \in 1..Len(listed) : args.requested_voice = listed[i])
                 <=> returned = args.requested_voice
           /\ (\A i \in 1..Len(listed) : args.requested_voice # listed[i])
                 => returned = listed[1]

\* C20 witness: a language of the table, and the request of a voice of its
\* list that is not the first one.
C20_Witness ==
    /\ pc = "done"
    /\ args.lang_code = <<"en", "GB">>
    /\ args.requested_voice = "Brian"
    /\ returned = "Brian"
    /\ POLLY_LANGUAGES[<<"en", "GB">>].voices[1] # "Brian"

(***************************************************************************)
(* The service on three requests, one for each way through the handler:    *)
(* a translated text for Sarvam, a translated text for Polly, and a        *)
(* two-chunk text that is not translated.                                  *)
(***************************************************************************)
LifeRequests ==
    {DefaultRequest, [DefaultRequest EXCEPT !.target_lang = <<"en", "US">>]}
        \cup LongRequests

LifeInit == Init

life_request ==
    /\ n_requests < MaxRequests
    /\ \E request \in LifeRequests : text_to_speech_request(request)
    /\ n_requests' = n_requests + 1
    /\ UNCHANGED <<polly_client, GEMINI_API_KEY, unit_vars>>

LifeNext == life_request \/ health_check \/ clear_cache \/ cache_stats

LifeSpec == LifeInit /\ [][LifeNext]_vars

====
